---- MODULE Spec2Model ----
(***************************************************************************)
(* Model of superdeno's Test class (src/unnamed/part_000): the list of     *)
(* pending expectations, the completion pipeline started by end(), the     *)
(* lifecycle of the server the instance may own, and the assertion         *)
(* functions that are run against the response.                            *)
(*                                                                         *)
(* JavaScript values are records tagged with their type in field t.        *)
(* The underlying superagent request is an external collaborator, modelled *)
(* by its contract: every call of its end() sends one request and invokes  *)
(* the handler it was given once, when that request settles.               *)
(***************************************************************************)
EXTENDS Naturals, Sequences, FiniteSets, TLC

(***************************************************************************)
(* Bounds of the model.                                                    *)
(***************************************************************************)
MaxAsserts == 3
MaxEnds == 1
MaxTriggers == 2
MaxPromises == 1
MaxDrain == 2
MaxChecks == 1

(***************************************************************************)
(* JavaScript values.                                                      *)
(***************************************************************************)
Undefined == [t |-> "undefined"]
Null == [t |-> "null"]
Str(s) == [t |-> "string", v |-> s]
Num(n) == [t |-> "number", v |-> n]
Bool(b) == [t |-> "boolean", v |-> b]
Obj(o) == [t |-> "object", v |-> o]
Arr(a) == [t |-> "array", v |-> a]
RegExp(src, lang) == [t |-> "regexp", src |-> src, matches |-> lang]
NewError(msg) == [t |-> "Error", msg |-> msg]

IsError(v) == v.t = "Error"
Truthy(v) == v.t \notin {"undefined", "null"} /\ v # Bool(FALSE)

\* RegExp.prototype.test on a string
RegExpTest(re, s) == s \in re.matches

STATUS_TEXT(status) ==
  CASE status = 200 -> "OK"
    [] status = 404 -> "Not Found"
    [] OTHER -> "undefined"

\* error(msg, expected, actual)
errorWithoutPayload(msg, expected, actual) == [t |-> "Error", msg |-> msg]

error(msg, expected, actual) ==
  [t |-> "Error", msg |-> msg, expected |-> expected, actual |-> actual,
   showDiff |-> TRUE]

(***************************************************************************)
(* The assertion functions.  Each returns an Error or Undefined.           *)
(***************************************************************************)
assertStatus(status, res) ==
  IF res.status # status
    THEN NewError(<<"expected", status, STATUS_TEXT(status),
                    "got", res.status, STATUS_TEXT(res.status)>>)
    ELSE Undefined

assertBody(body, res) ==
  LET isregexp == body.t = "regexp" IN
  IF body.t \in {"object", "array", "null"}
    THEN IF body = res.body
           THEN Undefined
           ELSE error(<<"expected", body, "response body, got", res.body>>,
                      body, res.body)
    ELSE IF body # Str(res.text)
           THEN IF isregexp
                  THEN IF ~RegExpTest(body, res.text)
                         THEN error(<<"expected body", res.text, "to match",
                                      body.src>>, body, res.body)
                         ELSE Undefined
                  ELSE error(<<"expected", body, "response body, got",
                               Str(res.text)>>, body, res.body)
           ELSE Undefined

\* String.prototype.toLowerCase on the header names of the model
toLowerCase(s) ==
  CASE s = "Content-Type" -> "content-type"
    [] s = "X-Tags" -> "x-tags"
    [] s = "Content-Length" -> "content-length"
    [] s = "X-Missing" -> "x-missing"
    [] OTHER -> s

RECURSIVE Join(_)
Join(a) ==
  IF Len(a) = 0 THEN ""
  ELSE IF Len(a) = 1 THEN a[1]
  ELSE a[1] \o "," \o Join(Tail(a))

\* Array.prototype.toString / String(value) of a header value
NumberToString(n) ==
  CASE n = 0 -> "0"
    [] n = 5 -> "5"
    [] n = 200 -> "200"
    [] n = 404 -> "404"
    [] n = 8080 -> "8080"
    [] n = 49152 -> "49152"
    [] n = 49153 -> "49153"

toString(v) ==
  IF v.t = "array" THEN Join(v.v)
  ELSE IF v.t = "number" THEN NumberToString(v.v)
  ELSE v.v

assertHeader(header, res) ==
  LET field == header.name
      key == toLowerCase(field)
      fieldExpected == header.value
  IN
  IF key \notin DOMAIN res.headers
    THEN NewError(<<"expected", field, "header field">>)
    ELSE
      LET actual == res.headers[key] IN
      IF \/ (actual.t = "array" /\ Str(toString(actual)) = fieldExpected)
         \/ fieldExpected = actual
        THEN Undefined
        ELSE IF fieldExpected.t = "regexp"
               THEN IF ~RegExpTest(fieldExpected, toString(actual))
                      THEN NewError(<<"expected", field, "matching",
                                      fieldExpected.src, "got",
                                      toString(actual)>>)
                      ELSE Undefined
               ELSE NewError(<<"expected", field, "of", fieldExpected,
                               "got", toString(actual)>>)

(***************************************************************************)
(* An entry of #asserts is a user function (kind "fn"), described by what  *)
(* a call of it does (return a value or throw a value), or one of the      *)
(* assertion functions bound to its first argument.  Call gives the        *)
(* outcome of fn(res).  The assertion functions read properties of res,    *)
(* which throws a TypeError when res is undefined.                         *)
(***************************************************************************)
Fn(name, do, val) ==
  [t |-> "function", kind |-> "fn", name |-> name, do |-> do, val |-> val]
BoundStatus(status) == [t |-> "function", kind |-> "status", status |-> status]
BoundBody(body) == [t |-> "function", kind |-> "body", body |-> body]
BoundHeader(header) == [t |-> "function", kind |-> "header", header |-> header]

TypeError == NewError("TypeError: undefined is not an object")

Call(fn, res) ==
  CASE fn.kind = "fn" -> [do |-> fn.do, val |-> fn.val]
    [] ~Truthy(res) -> [do |-> "throw", val |-> TypeError]
    [] fn.kind = "status" -> [do |-> "return", val |-> assertStatus(fn.status, res)]
    [] fn.kind = "body" -> [do |-> "return", val |-> assertBody(fn.body, res)]
    [] fn.kind = "header" -> [do |-> "return", val |-> assertHeader(fn.header, res)]

\* a thrown value is caught and then treated like a returned one
assertFunction(fn, res) ==
  LET err == Call(fn, res).val IN
  IF IsError(err) THEN err ELSE Undefined

(***************************************************************************)
(* #assert: the error handed to the callback and, as a record of what was  *)
(* run, the indices of the entries of #asserts that were called.           *)
(***************************************************************************)
InitialErrorNone(resError, res) == Undefined

InitialError(resError, res) ==
  IF ~Truthy(res) /\ Truthy(resError) THEN resError ELSE Undefined

LoopContinuesAlways(i, n, err) == i <= n

LoopContinues(i, n, err) == i <= n /\ ~Truthy(err)

RECURSIVE AssertLoop(_, _, _, _)
AssertLoop(asserts, res, i, st) ==
  IF LoopContinues(i, Len(asserts), st.error)
    THEN AssertLoop(asserts, res, i + 1,
                    [error |-> assertFunction(asserts[i], res),
                     called |-> Append(st.called, i)])
    ELSE st

FinalErrorDropsResError(err, resError) == err

FinalError(err, resError) ==
  IF ~Truthy(err) /\ Truthy(resError) THEN resError ELSE err

assert(resError, res, asserts) ==
  LET st == AssertLoop(asserts, res, 1,
                       [error |-> InitialError(resError, res),
                        called |-> <<>>])
      err == FinalError(st.error, resError)
  IN [error |-> IF Truthy(err) THEN err ELSE Null,
      res |-> res,
      called |-> st.called]

(***************************************************************************)
(* State of one Test instance and of its collaborators.                    *)
(*   args      path, host and secure as given to the constructor           *)
(*   url       this.url                                                    *)
(*   app       the handle given to the constructor                         *)
(*   thrown    the error thrown by the constructor, or Undefined           *)
(*   server    the server behind the handle: whether it listens, the port  *)
(*             it is bound to, and how often listen and close were called  *)
(*             on it by this instance                                      *)
(*   asserts   #asserts                                                    *)
(*   comps     one record per call of the underlying request's end():      *)
(*             the request sent, its outcome and the progress of the       *)
(*             handler that end() of Test registered for it                *)
(*   sent      number of requests handed to the underlying client          *)
(***************************************************************************)
VARIABLES args, url, app, thrown, server, asserts, comps, sent

vars == <<args, url, app, thrown, server, asserts, comps, sent>>

typeof(v) ==
  IF v.t \in {"regexp", "array", "null", "Error", "promise"} THEN "object" ELSE v.t

isString(a) == a.kind = "string"
isServer(a) == a.kind = "server"
isListener(a) == a.kind = "listener"

\* an address, a server that listens on its port, a listener that does not
\* listen yet, and a handle that is none of these
Apps ==
  {[kind |-> "string", v |-> "http://localhost:3000"],
   [kind |-> "server", port |-> 8080],
   [kind |-> "listener"],
   [kind |-> "other"]}

ConfigurationError ==
  NewError("superdeno is unable to identify or create a valid test server")

\* the constructor calls listen({ port: 0 }) on the handle
constructorListensUnlessString(a) == ~isString(a)

constructorListens(a) == ~isString(a) /\ ~isServer(a) /\ isListener(a)

constructorNeverThrows(a) == FALSE

constructorThrows(a) == ~isString(a) /\ ~isServer(a) /\ ~isListener(a)

Promise(state) == [t |-> "promise", state |-> state]

PromiseValues == {Undefined, Promise("fulfilled"), Promise("rejected")}

PromiseLists == UNION {[1..n -> PromiseValues] : n \in 0..MaxPromises}

\* secure = false
constructorSecureKept(a, secure) == secure

constructorSecure(a, secure) == IF constructorListens(a) THEN FALSE ELSE secure

\* #serverAddress(path, host, secure), with port the port of
\* this.#server.listener.addr
serverAddress(port, path, host, secure) ==
  LET protocol == IF secure THEN "https" ELSE "http" IN
  protocol \o "://" \o (IF Truthy(host) THEN host.v ELSE "127.0.0.1")
           \o ":" \o NumberToString(port) \o path

constructorUrl(a, port, path, host, secure) ==
  IF isString(a) THEN Str(a.v \o path)
  ELSE IF constructorThrows(a) THEN Undefined
  ELSE Str(serverAddress(port, path, host, constructorSecure(a, secure)))

\* the port that listen({ port: 0 }) binds is chosen by the system
EphemeralPorts == {49152, 49153}

DefaultArgs == [path |-> "/", host |-> Undefined, secure |-> FALSE]

UrlArgs ==
  [path : {"/", "/users"}, host : {Undefined, Str("localhost")},
   secure : BOOLEAN]

\* the state after new Test(a, method, path, host, secure)
InitWith(handles, arguments, ports) ==
  /\ app \in handles
  /\ args \in arguments
  /\ thrown = IF constructorThrows(app) THEN ConfigurationError ELSE Undefined
  /\ \E port \in (IF constructorListens(app) THEN ports
                  ELSE IF isServer(app) THEN {app.port} ELSE {0}) :
       /\ server = [listening |-> ~constructorThrows(app),
                    port |-> port,
                    listenCalls |-> IF constructorListens(app) THEN 1 ELSE 0,
                    closeCalls |-> 0]
       /\ url = constructorUrl(app, port, args.path, args.host, args.secure)
  /\ asserts = <<>>
  /\ comps = <<>>
  /\ sent = 0

Init == InitWith(Apps, {DefaultArgs}, {49152})

InitUrl == InitWith(Apps, UrlArgs, EphemeralPorts)

(***************************************************************************)
(* end(callback): hands the request to the underlying client together with *)
(* a handler that carries callback.                                        *)
(***************************************************************************)
NewCompletion(callback) ==
  [cb |-> callback, pc |-> "sent", err |-> Undefined, res |-> Undefined,
   closeErr |-> Undefined, pending |-> <<>>, n |-> 0, called |-> <<>>,
   cbCount |-> 0, cbArgs |-> <<>>, log |-> <<>>, caught |-> 0]

end(cs, callback) == Append(cs, NewCompletion(callback))

RECURSIVE endAll(_, _)
endAll(cs, callbacks) ==
  IF callbacks = <<>> THEN cs
  ELSE endAll(end(cs, Head(callbacks)), Tail(callbacks))

End(callback) ==
  /\ thrown = Undefined
  /\ comps' = end(comps, callback)
  /\ sent' = sent + 1
  /\ UNCHANGED <<args, url, app, thrown, server, asserts>>

(***************************************************************************)
(* expect(a, b, c) called with argc arguments.                             *)
(***************************************************************************)
expectEnds(a, b, c) ==
  IF typeof(a) = "function" THEN <<>>
  ELSE (IF typeof(b) = "function" THEN <<b>> ELSE <<>>)
       \o (IF typeof(c) = "function" THEN <<c>> ELSE <<>>)

expectPushesBeforeEndOnly(a, b, c, argc) ==
  IF typeof(a) = "function" THEN <<a>>
  ELSE IF expectEnds(a, b, c) # <<>> THEN <<>>
  ELSE IF typeof(a) = "number"
    THEN <<BoundStatus(a.v)>>
         \o (IF typeof(b) # "function" /\ argc > 1
               THEN <<BoundBody(b)>> ELSE <<>>)
  ELSE IF typeof(b) = "string" \/ typeof(b) = "number" \/ b.t = "regexp"
    THEN <<BoundHeader([name |-> toString(a), value |-> b])>>
  ELSE <<BoundBody(a)>>

expectPushesBodyFirst(a, b, c, argc) ==
  IF typeof(a) = "function" THEN <<a>>
  ELSE IF typeof(a) = "number"
    THEN (IF typeof(b) # "function" /\ argc > 1
            THEN <<BoundBody(b)>> ELSE <<>>)
         \o <<BoundStatus(a.v)>>
  ELSE IF typeof(b) = "string" \/ typeof(b) = "number" \/ b.t = "regexp"
    THEN <<BoundHeader([name |-> toString(a), value |-> b])>>
  ELSE <<BoundBody(a)>>

expectPushes(a, b, c, argc) ==
  IF typeof(a) = "function" THEN <<a>>
  ELSE IF typeof(a) = "number"
    THEN <<BoundStatus(a.v)>>
         \o (IF typeof(b) # "function" /\ argc > 1
               THEN <<BoundBody(b)>> ELSE <<>>)
  ELSE IF typeof(b) = "string" \/ typeof(b) = "number" \/ b.t = "regexp"
    THEN <<BoundHeader([name |-> toString(a), value |-> b])>>
  ELSE <<BoundBody(a)>>

Expect(a, b, c, argc) ==
  /\ thrown = Undefined
  /\ comps' = endAll(comps, expectEnds(a, b, c))
  /\ sent' = sent + Len(expectEnds(a, b, c))
  /\ asserts' = asserts \o expectPushes(a, b, c, argc)
  /\ UNCHANGED <<args, url, app, thrown, server>>

(***************************************************************************)
(* The handler that end() registers.  It runs when the request settles and *)
(* calls close(server, app, undefined, continuation).  The continuation    *)
(* walks Object.values(window._xhrSham.promises), as they are when it      *)
(* starts.                                                                 *)
(***************************************************************************)
TransportError == NewError("connection refused")
HTTPError == NewError("Not Found")

Headers(ct) == [n \in {"content-type"} |-> ct]
NoHeaders == [n \in {} |-> Undefined]

R200 == [t |-> "object", status |-> 200, text |-> "hello",
         body |-> Obj("hello"), headers |-> Headers(Str("application/json"))]
R404 == [t |-> "object", status |-> 404, text |-> "bye",
         body |-> Obj("bye"), headers |-> NoHeaders]

\* (err, res) with which the underlying client calls the handler
Outcomes ==
  {<<Undefined, R200>>, <<HTTPError, R404>>, <<TransportError, Undefined>>}

\* if (fn) fn.call(this, error || null, res)
invokesNever(fn) == FALSE

invokes(fn) == Truthy(fn)

\* self.#assert(err, res, callback), with the drain loop finished before it;
\* caught counts the rejections the loop in progress has caught
finish(rec, as) ==
  LET r == assert(rec.err, rec.res, as) IN
  [rec EXCEPT !.pc = "done",
              !.caught = 0,
              !.n = Len(as),
              !.called = r.called,
              !.cbCount = IF invokes(rec.cb) THEN @ + 1 ELSE @,
              !.cbArgs = IF invokes(rec.cb) THEN <<r.error, r.res>> ELSE @,
              !.log = @ \o <<"drain", "assert">>
                        \o (IF invokes(rec.cb) THEN <<"callback">> ELSE <<>>)]

\* if (promise): the promises not yet visited, without the leading ones
\* that the loop skips
RECURSIVE skipFalsy(_)
skipFalsy(ps) ==
  IF ps # <<>> /\ ~Truthy(Head(ps)) THEN skipFalsy(Tail(ps)) ELSE ps

\* the continuation given to close, with rec.pending the promises the drain
\* loop has not visited yet: it runs up to its next await, or to its end
continuationStopsOnCloseError(rec, as) ==
  IF Truthy(rec.closeErr)
    THEN [rec EXCEPT !.pc = "failed"]
    ELSE IF skipFalsy(rec.pending) # <<>>
      THEN [rec EXCEPT !.pc = "draining", !.pending = skipFalsy(@)]
      ELSE finish([rec EXCEPT !.pending = <<>>], as)

continuation(rec, as) ==
  IF skipFalsy(rec.pending) # <<>>
    THEN [rec EXCEPT !.pc = "draining", !.pending = skipFalsy(@)]
    ELSE finish([rec EXCEPT !.pending = <<>>], as)

handlerWithoutClose(rec, err, res, as) ==
  continuation([rec EXCEPT !.err = err, !.res = res,
                           !.log = Append(@, "settle")], as)

handler(rec, err, res, as) ==
  [rec EXCEPT !.err = err, !.res = res, !.pc = "closing",
              !.log = Append(@, "settle")]

Settle(c, err, res) ==
  /\ c \in 1..Len(comps)
  /\ comps[c].pc = "sent"
  /\ comps' = [comps EXCEPT ![c] = handler(@, err, res, asserts)]
  /\ UNCHANGED <<args, url, app, thrown, server, asserts, sent>>

(***************************************************************************)
(* close(server, app, undefined, continuation): closes the server when the *)
(* instance started it, swallows the error of closing a server that is     *)
(* already closed, and calls the continuation in every case.               *)
(***************************************************************************)
CloseError == NewError("close failed")

closesServer(a) == isListener(a)

\* the results server.close() can have: the error it throws, or Undefined
closeResults(srv) ==
  IF ~srv.listening THEN {NewError("already closed")}
  ELSE {Undefined, CloseError}

surfaced(e) == IF e = NewError("already closed") THEN Undefined ELSE e

CloseWith(c, promises) ==
  /\ c \in 1..Len(comps)
  /\ comps[c].pc = "closing"
  /\ \E e \in (IF closesServer(app) THEN closeResults(server) ELSE {Undefined}),
        ps \in promises :
       /\ server' = IF closesServer(app)
                      THEN [server EXCEPT !.closeCalls = @ + 1,
                                          !.listening = @ /\ e # Undefined]
                      ELSE server
       /\ comps' = [comps EXCEPT ![c] =
                      continuation([@ EXCEPT !.closeErr = surfaced(e),
                                             !.pending = ps,
                                             !.log = Append(@, "close")],
                                   asserts)]
  /\ UNCHANGED <<args, url, app, thrown, asserts, sent>>

Close(c) == CloseWith(c, PromiseLists)

(***************************************************************************)
(* The promise the drain loop awaits, the head of pending, settles; a       *)
(* rejection is caught.                                                    *)
(***************************************************************************)
rejects(promise) == promise.state = "rejected"

DrainWithoutCatch(c) ==
  /\ c \in 1..Len(comps)
  /\ comps[c].pc = "draining"
  /\ comps' = [comps EXCEPT ![c] =
                 IF rejects(Head(@.pending))
                   THEN [@ EXCEPT !.pc = "failed"]
                   ELSE continuation([@ EXCEPT !.pending = Tail(@)], asserts)]
  /\ UNCHANGED <<args, url, app, thrown, server, asserts, sent>>

Drain(c) ==
  /\ c \in 1..Len(comps)
  /\ comps[c].pc = "draining"
  /\ comps' = [comps EXCEPT ![c] =
                 continuation(
                   [@ EXCEPT !.pending = Tail(@),
                             !.caught = IF rejects(Head(comps[c].pending))
                                          THEN @ + 1 ELSE @],
                   asserts)]
  /\ UNCHANGED <<args, url, app, thrown, server, asserts, sent>>

(***************************************************************************)
(* The calls the model makes, and its specifications.  The code bounds     *)
(* neither the number of expectations nor the number of completion         *)
(* triggers; the model does, in the guards of Next.                        *)
(***************************************************************************)
Callback == Fn("callback", "return", Undefined)

Callbacks == {Undefined, Callback}

Checkers ==
  {Fn("returnsError", "return", NewError("bad")),
   Fn("throwsError", "throw", NewError("thrown")),
   Fn("throwsString", "throw", Str("bad"))}

\* every shape of a call of expect
ExpectCalls ==
  {<<f, Undefined, Undefined, 1>> : f \in Checkers}
  \cup {<<f, Callback, Undefined, 2>> : f \in Checkers}
  \cup {<<Num(200), Undefined, Undefined, 1>>,
        <<Num(200), Callback, Undefined, 2>>,
        <<Num(200), Str("hello"), Undefined, 2>>,
        <<Num(200), Str("hello"), Callback, 3>>,
        <<Str("hello"), Undefined, Undefined, 1>>,
        <<Str("hello"), Callback, Undefined, 2>>,
        <<Str("Content-Type"), Str("application/json"), Undefined, 2>>,
        <<Str("Content-Type"), Str("application/json"), Callback, 3>>,
        <<Num(200), Undefined, Undefined, 2>>,
        <<Obj("hello"), Undefined, Undefined, 1>>,
        <<RegExp("/^hel/", {"hello"}), Callback, Undefined, 2>>,
        <<Str("Content-Length"), Num(5), Undefined, 2>>,
        <<Str("X-Tags"), RegExp("/^a/", {"a", "a,b"}), Undefined, 2>>}

\* an expectation that passes or fails with the response, and one that
\* always fails
CoreCalls ==
  {<<Fn("returnsError", "return", NewError("bad")), Undefined, Undefined, 1>>,
   <<Num(404), Undefined, Undefined, 1>>,
   <<Num(404), Callback, Undefined, 2>>}

\* more expectations, among them functions that throw
WideCalls ==
  {<<f, Undefined, Undefined, 1>> : f \in Checkers}
  \cup {<<Num(200), Undefined, Undefined, 1>>,
        <<Num(200), Callback, Undefined, 2>>,
        <<Num(200), Str("hello"), Callback, 3>>}

\* the call keeps #asserts and the number of requests within the bounds
Within(x, maxAsserts, maxEnds) ==
  /\ Len(asserts) + Len(expectPushes(x[1], x[2], x[3], x[4])) <= maxAsserts
  /\ Len(comps) + Len(expectEnds(x[1], x[2], x[3])) <= maxEnds

Pipeline ==
  \/ \E c \in 1..Len(comps), o \in Outcomes : Settle(c, o[1], o[2])
  \/ \E c \in 1..Len(comps) : Close(c)
  \/ \E c \in 1..Len(comps) : Drain(c)

\* one completion trigger per instance
Next ==
  \/ \E x \in CoreCalls :
       Within(x, MaxAsserts, MaxEnds) /\ Expect(x[1], x[2], x[3], x[4])
  \/ \E cb \in Callbacks : Len(comps) < MaxEnds /\ End(cb)
  \/ Pipeline

Spec == Init /\ [][Next]_vars

\* repeated completion triggers
NextWide ==
  \/ \E x \in WideCalls :
       Within(x, MaxAsserts, MaxTriggers) /\ Expect(x[1], x[2], x[3], x[4])
  \/ \E cb \in Callbacks : Len(comps) < MaxTriggers /\ End(cb)
  \/ Pipeline

SpecWide == Init /\ [][NextWide]_vars

\* declarations and completion triggers only, with every shape of expect
NextExpect ==
  \/ \E x \in ExpectCalls :
       Within(x, MaxAsserts, MaxTriggers) /\ Expect(x[1], x[2], x[3], x[4])
  \/ \E cb \in Callbacks : Len(comps) < MaxTriggers /\ End(cb)

SpecExpect == Init /\ [][NextExpect]_vars

\* a settled request is handed to close, close calls the continuation, and
\* a promise that the drain loop awaits settles
LiveCalls ==
  {<<Num(404), Undefined, Undefined, 1>>, <<Num(404), Callback, Undefined, 2>>}

NextLive ==
  \/ \E x \in LiveCalls :
       Within(x, MaxAsserts, MaxEnds) /\ Expect(x[1], x[2], x[3], x[4])
  \/ Pipeline

\* the drain loop over several outstanding transport promises
DrainLists == UNION {[1..n -> PromiseValues] : n \in 0..MaxDrain}

NextDrain ==
  \/ \E x \in LiveCalls :
       Within(x, MaxAsserts, MaxEnds) /\ Expect(x[1], x[2], x[3], x[4])
  \/ \E c \in 1..Len(comps), o \in Outcomes : Settle(c, o[1], o[2])
  \/ \E c \in 1..Len(comps) : CloseWith(c, DrainLists)
  \/ \E c \in 1..Len(comps) : Drain(c)

SpecDrain == Init /\ [][NextDrain]_vars

\* expectations of every kind against a response with headers, and against
\* one without
RFull ==
  [t |-> "object", status |-> 200, text |-> "hello", body |-> Obj("hello"),
   headers |-> [n \in {"content-type", "x-tags", "content-length"} |->
                  CASE n = "content-type" -> Str("application/json")
                    [] n = "x-tags" -> Arr(<<"a", "b">>)
                    [] n = "content-length" -> Str("5")]]

CheckOutcomes == {<<Undefined, RFull>>, <<HTTPError, R404>>}

CheckCalls ==
  {<<a, Undefined, Undefined, 1>> :
     a \in {Num(200), Obj("hello"), Str("hello"),
            RegExp("/^hel/", {"hello"}), RegExp("/json/", {"application/json"})}}
  \cup {<<Str(n), v, Undefined, 2>> :
          n \in {"Content-Type", "X-Tags", "Content-Length", "X-Missing"},
          v \in {Str("application/json"), Str("a,b"), Num(5),
                 RegExp("/json/", {"application/json"}),
                 RegExp("/^a/", {"a", "a,b"})}}

NextChecks ==
  \/ \E x \in CheckCalls :
       Within(x, MaxChecks, MaxEnds) /\ Expect(x[1], x[2], x[3], x[4])
  \/ Len(comps) < MaxEnds /\ End(Callback)
  \/ \E c \in 1..Len(comps), o \in CheckOutcomes : Settle(c, o[1], o[2])
  \/ \E c \in 1..Len(comps) : CloseWith(c, {<<>>})

SpecChecks == Init /\ [][NextChecks]_vars

\* completions triggered by expect itself, before it appends
TriggerCalls ==
  {<<Num(404), Undefined, Undefined, 1>>,
   <<Num(404), Callback, Undefined, 2>>,
   <<Num(404), Str("bye"), Callback, 3>>}

NextTrigger ==
  \/ \E x \in TriggerCalls :
       Within(x, MaxAsserts, MaxEnds) /\ Expect(x[1], x[2], x[3], x[4])
  \/ Pipeline

SpecTrigger == Init /\ [][NextTrigger]_vars

\* instances constructed with every combination of handle and arguments
SpecUrl == InitUrl /\ [][NextLive]_vars

SpecLive ==
  /\ Init /\ [][NextLive]_vars
  /\ WF_vars(\E c \in 1..Len(comps) : Close(c) \/ Drain(c))

(***************************************************************************)
(* Vocabulary of the properties.                                           *)
(***************************************************************************)
Completions == 1..Len(comps)

Done(c) == comps[c].pc = "done"

Min(S) == CHOOSE x \in S : \A y \in S : x <= y

\* the entries of #asserts, among those present when completion c ran
\* #assert, that produce an error against the response of c
Failing(c) ==
  {i \in 1..comps[c].n : IsError(assertFunction(asserts[i], comps[c].res))}

UpTo(k) == [i \in 1..k |-> i]

Steps == <<"settle", "close", "drain", "assert", "callback">>

IsPrefix(s, t) == Len(s) <= Len(t) /\ s = SubSeq(t, 1, Len(s))

\* C1: when a completion has a response and some expectation produces an
\* error against it, exactly the expectations up to the first such one are
\* called, in order, and the callback receives the error of that one.
C1_FirstFailureShortCircuits ==
  \A c \in Completions :
    (Done(c) /\ Truthy(comps[c].res) /\ Failing(c) # {}) =>
      /\ comps[c].called = UpTo(Min(Failing(c)))
      /\ Truthy(comps[c].cb) =>
           comps[c].cbArgs[1] =
             assertFunction(asserts[Min(Failing(c))], comps[c].res)

\* a completion with a callback where the first expectation passed, the
\* second failed and a third was declared before the assertions ran
C1_Witness ==
  \E c \in Completions :
    /\ Done(c) /\ Truthy(comps[c].res) /\ Truthy(comps[c].cb)
    /\ comps[c].n = 3
    /\ Failing(c) # {} /\ Min(Failing(c)) = 2
    /\ comps[c].called = <<1, 2>>

\* C2: the callback of a completion is called with one error value, which
\* is the transport error if there is no response, else the error of the
\* first failing expectation, else the transport error that came with the
\* response, else null.
C2_ErrorPrecedence ==
  \A c \in Completions :
    (Done(c) /\ Truthy(comps[c].cb)) =>
      /\ comps[c].cbCount = 1
      /\ comps[c].cbArgs[1] =
           IF ~Truthy(comps[c].res) /\ Truthy(comps[c].err)
             THEN comps[c].err
           ELSE IF Failing(c) # {}
             THEN assertFunction(asserts[Min(Failing(c))], comps[c].res)
           ELSE IF Truthy(comps[c].err) THEN comps[c].err
           ELSE Null

\* a response that came with an error, and expectations that all passed
C2_Witness ==
  \E c \in Completions :
    /\ Done(c) /\ Truthy(comps[c].cb)
    /\ Truthy(comps[c].res) /\ Truthy(comps[c].err)
    /\ comps[c].n > 0 /\ Failing(c) = {}
    /\ comps[c].called = UpTo(comps[c].n)
    /\ comps[c].cbArgs[1] = comps[c].err

\* C3: the steps of a completion happen in the order settle, close, drain,
\* assert, callback: expectations are called and the callback is invoked
\* only after the close was performed and the drain has finished, and the
\* close is performed only after the request has settled.
C3_PipelineOrder ==
  \A c \in Completions :
    /\ IsPrefix(comps[c].log, Steps)
    /\ (comps[c].called # <<>> \/ comps[c].cbCount > 0) =>
         /\ SubSeq(comps[c].log, 1, 3) = <<"settle", "close", "drain">>
         /\ comps[c].pending = <<>>
         /\ closesServer(app) => server.closeCalls > 0
    /\ comps[c].pc = "sent" => comps[c].log = <<>>

\* a completion on an owned server that closed it, called an expectation
\* and invoked its callback
C3_Witness ==
  \E c \in Completions :
    /\ isListener(app) /\ Done(c)
    /\ comps[c].log = Steps
    /\ comps[c].called # <<>>
    /\ server.closeCalls = 1 /\ ~server.listening

\* C4: the callback given to a completion trigger is not invoked before
\* the pipeline of its request has finished, and when the pipeline has
\* finished it has been invoked exactly once, with the error and the
\* response.
C4_CallbackExactlyOnce ==
  \A c \in Completions :
    Truthy(comps[c].cb) =>
      /\ comps[c].cbCount = IF Done(c) THEN 1 ELSE 0
      /\ Done(c) => /\ Len(comps[c].cbArgs) = 2
                    /\ comps[c].cbArgs[2] = comps[c].res

\* a request that settled with a transport error and no response, its
\* callback invoked once
C4_Witness ==
  \E c \in Completions :
    /\ Done(c) /\ Truthy(comps[c].cb)
    /\ ~Truthy(comps[c].res) /\ Truthy(comps[c].err)
    /\ comps[c].cbCount = 1
    /\ comps[c].cbArgs = <<comps[c].err, comps[c].res>>

\* the last argument of a call of expect is a callback
TrailingCallback(x) == x[4] > 1 /\ typeof(x[x[4]]) = "function"

\* C5: a Test constructed on a listener calls listen once, every finished
\* completion has closed that server, and close is called on it at most
\* once whatever expectations are declared and completions triggered.
C5_OneListenOneClose ==
  isListener(app) =>
    /\ server.listenCalls = 1
    /\ (\E c \in Completions : Done(c)) => server.closeCalls >= 1
    /\ server.closeCalls <= 1

\* C6: with an address string or a running server as the handle, the
\* instance never calls listen or close and the server keeps listening.
C6_ExternalServerUntouched ==
  (isString(app) \/ isServer(app)) =>
    /\ server.listenCalls = 0
    /\ server.closeCalls = 0
    /\ server.listening

\* a finished completion, with expectations declared, on a running server
C6_Witness ==
  /\ isServer(app)
  /\ asserts # <<>>
  /\ \E c \in Completions : Done(c) /\ IsPrefix(<<"settle", "close">>, comps[c].log)

\* C7: whatever completion triggers are called on an instance, at most one
\* request is sent to the underlying client.
C7_AtMostOneRequest == sent <= 1

\* C8: a call of expect whose last argument is a callback triggers one
\* completion, with that callback.
C8_TrailingCallbackCompletes ==
  [][\A x \in ExpectCalls :
       (TrailingCallback(x) /\ Expect(x[1], x[2], x[3], x[4])) =>
         /\ sent' = sent + 1
         /\ Len(comps') = Len(comps) + 1
         /\ comps'[Len(comps')].cb = x[x[4]]]_vars

\* C9: a function expectation that returns an Error or throws fails the
\* completion with the value it returned or threw, and any other function
\* expectation passes: when it is the only expectation and the response
\* came without error, the callback receives no error.
C9_ThrowOrErrorFails ==
  \A c \in Completions :
    (Done(c) /\ Truthy(comps[c].cb) /\ Truthy(comps[c].res)
       /\ comps[c].n >= 1 /\ asserts[1].kind = "fn") =>
      IF asserts[1].do = "throw" \/ IsError(asserts[1].val)
        THEN comps[c].cbArgs[1] = asserts[1].val
        ELSE comps[c].n = 1 /\ ~Truthy(comps[c].err) =>
               comps[c].cbArgs[1] = Null

\* C10: an error of closing the owned server, other than "already closed",
\* is handed to the callback of the completion.
C10_CloseErrorSurfaced ==
  \A c \in Completions :
    (Done(c) /\ Truthy(comps[c].cb) /\ Truthy(comps[c].closeErr)) =>
      \E i \in 1..Len(comps[c].cbArgs) : comps[c].cbArgs[i] = comps[c].closeErr

\* C11: once the handler of a completion has run with the response or the
\* transport error, the continuation runs to its end whatever the close
\* did: the assertions are evaluated and a callback is invoked.
C11_ContinuationAlwaysRuns ==
  \A c \in 1..MaxEnds :
    (c \in Completions /\ comps[c].pc = "closing")
      ~> (/\ c \in Completions /\ Done(c)
          /\ IsPrefix(<<"settle", "close", "drain", "assert">>, comps[c].log)
          /\ Truthy(comps[c].cb) => comps[c].cbCount = 1)

\* a completion on an owned server whose close failed, and one whose close
\* found nothing to close, have run their assertions and callback
C11_Witness ==
  \E c \in Completions :
    /\ Done(c) /\ Truthy(comps[c].cb) /\ comps[c].cbCount = 1
    /\ comps[c].called # <<>>
    /\ isListener(app) /\ Truthy(comps[c].closeErr)

\* C12: a transport promise that rejects while the drain loop awaits it
\* changes nothing: the loop goes on to the promises that remain, and when
\* none remains the assertions run on the handler's (err, res) and the
\* callback is invoked with their result, exactly as after a promise that
\* resolved.
C12_DrainFailureIgnored ==
  [][\A c \in Completions :
       (/\ comps[c].pc = "draining"
        /\ rejects(Head(comps[c].pending))
        /\ comps'[c] # comps[c])
       => LET rest == skipFalsy(Tail(comps[c].pending))
              r == assert(comps[c].err, comps[c].res, asserts)
              resolved == [comps[c] EXCEPT
                             !.pending = <<Promise("fulfilled")>> \o Tail(@)]
          IN /\ IF rest # <<>>
                  THEN /\ comps'[c].pc = "draining"
                       /\ comps'[c].pending = rest
                  ELSE /\ comps'[c].pc = "done"
                       /\ comps'[c].called = r.called
                       /\ Truthy(comps[c].cb)
                            => /\ comps'[c].cbCount = 1
                               /\ comps'[c].cbArgs = <<r.error, r.res>>
             /\ [comps'[c] EXCEPT !.caught = 0]
                  = [continuation([resolved EXCEPT !.pending = Tail(@)],
                                  asserts) EXCEPT !.caught = 0]]_vars

\* the loop has caught the rejection of one promise and awaits the next,
\* with expectations and a callback waiting for it
C12_Witness ==
  \E c \in Completions :
    /\ comps[c].pc = "draining" /\ comps[c].caught > 0
    /\ comps[c].pending # <<>> /\ rejects(Head(comps[c].pending))
    /\ Truthy(comps[c].cb) /\ asserts # <<>>

\* C13: an instance constructed with a handle that is neither a string, nor
\* a running server, nor a listener fails at once with the error "superdeno
\* is unable to identify or create a valid test server"; no server is
\* started, and no expectation is registered nor request sent, ever.
C13_UnknownHandleThrows ==
  (~isString(app) /\ ~isServer(app) /\ ~isListener(app))
    => /\ thrown = NewError(
            "superdeno is unable to identify or create a valid test server")
       /\ server.listenCalls = 0 /\ ~server.listening
       /\ sent = 0 /\ comps = <<>> /\ asserts = <<>>

\* the constructor has thrown on a handle of no known kind
C13_Witness ==
  /\ app.kind = "other"
  /\ IsError(thrown) /\ sent = 0 /\ server.listenCalls = 0

HasPayload(e) == {"expected", "actual"} \subseteq DOMAIN e

\* the errors of the expectations that a finished completion has run
Mismatches(kinds) ==
  {assertFunction(asserts[i], comps[c].res) :
     <<c, i>> \in {x \in Completions \X (1..Len(asserts)) :
                     /\ Done(x[1]) /\ x[2] <= Len(comps[x[1]].called)
                     /\ Truthy(comps[x[1]].res)
                     /\ asserts[x[2]].kind \in kinds}}
    \ {Undefined}

HeaderRule(h, res, e, types) ==
  LET key == toLowerCase(h.name) IN
  IF key \notin DOMAIN res.headers
    THEN e = NewError(<<"expected", h.name, "header field">>)
    ELSE LET actual == toString(res.headers[key]) IN
         /\ h.value.t = "regexp"
              => (e = Undefined <=> actual \in h.value.matches)
         /\ h.value.t \in types
              => (e = Undefined <=> actual = toString(h.value))

\* C16: a header expectation looks the name up without regard to case; it
\* fails with 'expected "<name>" header field' when the header is absent;
\* given a pattern it passes exactly when the pattern matches the actual
\* value; given a string or a number it passes exactly when the actual
\* value, an array being joined to a string, equals the expected value.
C16_HeaderExpectation ==
  \A c \in Completions, i \in 1..Len(asserts) :
    (/\ Done(c) /\ Truthy(comps[c].res) /\ i <= Len(comps[c].called)
     /\ asserts[i].kind = "header")
    => HeaderRule(asserts[i].header, comps[c].res,
                  assertFunction(asserts[i], comps[c].res),
                  {"string", "number"})

\* the entries that a call x of expect is to append
Appended(x) ==
  LET a == x[1]
      b == x[2]
      given == x[4] > 1
  IN CASE a.t = "function" -> <<a>>
       [] a.t = "number" /\ (~given \/ b.t = "function") ->
            <<BoundStatus(a.v)>>
       [] a.t = "number" /\ given /\ b.t # "function" ->
            <<BoundStatus(a.v), BoundBody(b)>>
       [] a.t \notin {"function", "number"}
            /\ b.t \in {"string", "number", "regexp"} ->
            <<BoundHeader([name |-> a.v, value |-> b])>>
       [] OTHER -> <<BoundBody(a)>>

\* C17: a call of expect only appends to the list of expectations: a
\* function gives one predicate, a number one status expectation, a number
\* with a second argument that is not a function a status expectation
\* followed by a body expectation, any other first argument with a string,
\* number or pattern as second argument one header expectation, and any
\* other first argument one body expectation; no step removes or replaces
\* an entry, so the list is the concatenation of these in call order.
C17_ExpectAppends ==
  [][/\ IsPrefix(asserts, asserts')
     /\ \A x \in ExpectCalls :
          Expect(x[1], x[2], x[3], x[4]) => asserts' = asserts \o Appended(x)
    ]_vars

\* a status expectation, its body expectation and then a header expectation
C17_Witness ==
  /\ Len(asserts) = 3
  /\ asserts[1].kind = "status" /\ asserts[2].kind = "body"
  /\ asserts[3].kind = "header" /\ asserts[3].header.value.t = "regexp"

\* C18: when the request has settled with a transport error and without a
\* response, the assertions call none of the expectations, and the callback
\* is given exactly that transport error, with no response.
C18_TransportErrorSkipsExpectations ==
  \A c \in Completions :
    (Done(c) /\ ~Truthy(comps[c].res) /\ Truthy(comps[c].err))
      => /\ comps[c].called = <<>>
         /\ Truthy(comps[c].cb)
              => comps[c].cbArgs = <<comps[c].err, Undefined>>

\* a callback has been given the transport error while expectations, one
\* of them a function that returns an error, were declared
C18_Witness ==
  \E c \in Completions :
    /\ Done(c) /\ comps[c].n > 1 /\ comps[c].called = <<>>
    /\ asserts[1].kind = "fn"
    /\ comps[c].cbCount = 1 /\ comps[c].cbArgs = <<TransportError, Undefined>>

\* C19: the URL of the instance.  For a string handle it is the handle
\* followed by the path, and no server is started or closed.  For a running
\* server it is scheme://host:port followed by the path, with the port the
\* server is bound to, https exactly when secure was given as true, and the
\* host 127.0.0.1 when none was given.  For a listener, listen was called
\* before the URL was computed, so the port is the one just bound, and the
\* scheme is http whatever secure was given.
C19_BaseUrl ==
  LET host == IF args.host = Undefined THEN "127.0.0.1" ELSE args.host.v
      port == NumberToString(server.port)
  IN /\ isString(app)
          => /\ url = Str(app.v \o args.path)
             /\ server.listenCalls = 0 /\ server.closeCalls = 0
     /\ isServer(app)
          => /\ server.port = app.port /\ server.listenCalls = 0
             /\ url = Str((IF args.secure THEN "https" ELSE "http")
                          \o "://" \o host \o ":" \o port \o args.path)
     /\ isListener(app)
          => /\ server.listenCalls = 1 /\ server.port \in EphemeralPorts
             /\ url = Str("http://" \o host \o ":" \o port \o args.path)

\* a listener constructed with secure = true and a host, after a request
\* was sent to its URL
C19_Witness ==
  /\ isListener(app) /\ args.secure /\ args.host = Str("localhost")
  /\ url = Str("http://localhost:49153/users")
  /\ sent > 0

\* C20: the assertions of a completion read the list of expectations when
\* they run, so an expectation appended after the completion was triggered
\* and before it finished is evaluated with the others.  expect(status,
\* callback) and expect(status, body, callback) trigger the completion and
\* then append their expectations, which are therefore in the list when the
\* callback of that completion is invoked.
C20_LateExpectationsEvaluated ==
  [][/\ \A c \in Completions :
          (~Done(c) /\ comps'[c].pc = "done")
            => LET r == assert(comps[c].err, comps[c].res, asserts')
               IN /\ comps'[c].n = Len(asserts')
                  /\ comps'[c].called = r.called
                  /\ Truthy(comps[c].cb)
                       => comps'[c].cbArgs = <<r.error, r.res>>
     /\ \A x \in TriggerCalls :
          (TrailingCallback(x) /\ Expect(x[1], x[2], x[3], x[4]))
            => /\ comps'[Len(comps')].pc = "sent"
               /\ comps'[Len(comps')].cb = x[x[4]]
               /\ Len(asserts') = Len(asserts) + x[4] - 1
               /\ asserts'[Len(asserts) + 1] = BoundStatus(x[1].v)
               /\ x[4] = 3 => asserts'[Len(asserts) + 2] = BoundBody(x[2])
    ]_vars

\* the only completion was triggered by expect(status, body, callback),
\* another expectation was appended after it, and all three were called
\* before the callback
C20_Witness ==
  /\ Len(comps) = 1 /\ Done(1) /\ comps[1].cbCount = 1
  /\ Len(asserts) = 3 /\ comps[1].called = <<1, 2, 3>>
  /\ asserts[1].kind = "status" /\ asserts[2].kind = "body"

====
